---- MODULE Spec2Model ----
(***************************************************************************)
(* The scanner of nex-lang (src/src/lexer.rs) as a state machine.          *)
(*                                                                         *)
(* A character is a one-character string; the source is a sequence of      *)
(* characters.  The Rust code indexes the source in two ways: by character *)
(* (source.chars().nth(i)) and by byte (source.len(), source[a..b]).  Both *)
(* are modelled: every character has a UTF-8 width and a byte slice that   *)
(* does not fall on character boundaries panics, as it does in Rust.       *)
(* A panic (panic!, unwrap on None, a bad slice) ends the run in           *)
(* pc = "panicked" with the panic's message in panicMsg.                   *)
(***************************************************************************)
EXTENDS Integers, Sequences, FiniteSets, TLC

VARIABLES source, tokens, start, current, line, pc, panicMsg, errors, spans

vars == <<source, tokens, start, current, line, pc, panicMsg, errors, spans>>

(***************************************************************************)
(* Bounds of the model: the longest source drawn from each alphabet.       *)
(***************************************************************************)
MaxLen == 3

MaxCommentLen == 6

MaxWordLen == 4

MaxWideLen == 5

(***************************************************************************)
(* Characters.                                                             *)
(***************************************************************************)
NL == "\n"

QUOTE == "\""

\* peek and peek_next return '\0' at the end of the input; no source of the
\* model holds that character.
NUL == "NUL"

\* chars().nth(i) is None past the last character.
NoChar == "None"

Digits == {"0", "1", "2", "3", "4", "5", "6", "7", "8", "9"}

Letters ==
    {"a", "b", "c", "d", "e", "f", "g", "h", "i", "j", "k", "l", "m",
     "n", "o", "p", "q", "r", "s", "t", "u", "v", "w", "x", "y", "z"}

\* A letter outside ASCII: alphanumeric for char::is_alphanumeric, two bytes
\* wide in UTF-8.
EAcute == "é"

\* char::is_digit(10)
IsDigit(c) == c \in Digits

\* IsAlphanumeric taking '@' for a character of identifiers too.
IsAlphanumericOrAt(c) == c \in Letters \cup Digits \cup {EAcute, "@"}

\* char::is_alphanumeric
IsAlphanumeric(c) == c \in Letters \cup Digits \cup {EAcute}

\* The number of bytes of a character in the UTF-8 encoding of a String.
Width(c) == IF c = EAcute THEN 2 ELSE 1

\* The alphabets the sources of the model are drawn from.
Alphabet ==
    {NL, " ", "{", "}", "(", ")", ",", ".", "-", "+", ";", "*", "!", "=", "<",
     ">", "#", "/", ":", QUOTE, "1", "a", "@", EAcute}

CommentAlphabet == {"/", "*", NL, "a", QUOTE}

WordAlphabet == {"d", "o", "r", "1", ".", " ", "#", NL}

\* Sources with a character that is wider than one byte.
WideAlphabet == {EAcute, "a", " ", "1", QUOTE}

Seqs(A, n) == UNION {[1..k -> A] : k \in 0..n}

Sources ==
    Seqs(Alphabet, MaxLen) \cup Seqs(CommentAlphabet, MaxCommentLen)
        \cup Seqs(WordAlphabet, MaxWordLen) \cup Seqs(WideAlphabet, MaxWideLen)

(***************************************************************************)
(* Strings: byte length, character access, byte slices.                    *)
(***************************************************************************)
RECURSIVE ByteLen(_)
\* String::len(): the length in bytes.
ByteLen(s) == IF s = <<>> THEN 0 ELSE Width(Head(s)) + ByteLen(Tail(s))

\* The byte offset of the character with (0-based) index k of s.
BytePos(s, k) == ByteLen(SubSeq(s, 1, k))

\* source.chars().nth(i): the character with 0-based index i, or None.
CharAt(s, i) == IF i >= 0 /\ i < Len(s) THEN s[i + 1] ELSE NoChar

\* str::is_char_boundary
IsBoundary(s, b) == \E k \in 0..Len(s) : BytePos(s, k) = b

\* Whether the byte slice s[b..e] is defined (it panics otherwise).
SliceOk(s, b, e) == b <= e /\ IsBoundary(s, b) /\ IsBoundary(s, e)

\* s[b..e] for a defined slice: the characters whose bytes lie in [b, e).
Slice(s, b, e) ==
    LET kb == CHOOSE k \in 0..Len(s) : BytePos(s, k) = b
        ke == CHOOSE k \in 0..Len(s) : BytePos(s, k) = e
    IN  SubSeq(s, kb + 1, ke)

(***************************************************************************)
(* Tokens.                                                                 *)
(***************************************************************************)
\* Token::new
NewToken(token, lexeme, literal, ln) ==
    [token |-> token, lexeme |-> lexeme, literal |-> literal, line |-> ln]

\* The keyword table of get_keyword; NoKeyword stands for its None.
NoKeyword == "None"

get_keyword(identifier) ==
    CASE identifier = <<"a", "n", "d">> -> "And"
      [] identifier = <<"e", "l", "s", "e">> -> "Else"
      [] identifier = <<"f", "a", "l", "s", "e">> -> "False"
      [] identifier = <<"f", "n">> -> "Fn"
      [] identifier = <<"i", "f">> -> "If"
      [] identifier = <<"n", "i", "l">> -> "Nil"
      [] identifier = <<"o", "r">> -> "Or"
      [] identifier = <<"p", "r", "i", "n", "t">> -> "Print"
      [] identifier = <<"r", "e", "t", "u", "r", "n">> -> "Return"
      [] identifier = <<"t", "r", "u", "e">> -> "True"
      [] identifier = <<"v", "a", "r">> -> "Var"
      [] identifier = <<"m", "a", "t", "c", "h">> -> "Match"
      [] identifier = <<"n", "u", "m", "b", "e", "r">> -> "NumberType"
      [] identifier = <<"f", "l", "o", "a", "t">> -> "FloatType"
      [] identifier = <<"b", "o", "o", "l">> -> "BoolType"
      [] identifier = <<"s", "t", "r", "i", "n", "g">> -> "StringType"
      [] OTHER -> NoKeyword

\* The arms of scan_token's match that add one token for one character.
SingleChars == {"{", "}", "(", ")", ",", ".", "+", ";", "*"}

SingleKind(c) ==
    CASE c = "{" -> "LeftBrace"
      [] c = "}" -> "RightBrace"
      [] c = "(" -> "LeftParen"
      [] c = ")" -> "RightParen"
      [] c = "," -> "Comma"
      [] c = "." -> "Dot"
      [] c = "+" -> "Plus"
      [] c = ";" -> "Semicolon"
      [] c = "*" -> "Star"

\* The arms of scan_token's match that look one character ahead with is_match
\* and add a token either way.
LookaheadChars == {"-", "!", "=", "<", ">"}

\* The character is_match is asked for.
Expected(c) == IF c = "-" THEN ">" ELSE "="

\* The token kind when is_match returns true.
MatchedKind(c) ==
    CASE c = "-" -> "FnTypeImplication"
      [] c = "!" -> "BangEqual"
      [] c = "=" -> "EqualEqual"
      [] c = "<" -> "LessEqual"
      [] c = ">" -> "GreaterEqual"

\* The token kind when is_match returns false.
LoneKind(c) ==
    CASE c = "-" -> "Minus"
      [] c = "!" -> "Equal"
      [] c = "=" -> "Equal"
      [] c = "<" -> "Less"
      [] c = ">" -> "Greater"

(***************************************************************************)
(* The scanner's reads of the source, at cursor position cur.              *)
(***************************************************************************)
\* is_at_end: current >= source.len(), a length in bytes.
is_at_end(cur) == cur >= ByteLen(source)

\* peek: '\0' at the end, else chars().nth(current).unwrap(); NoChar when the
\* unwrap panics.
peek(cur) == IF is_at_end(cur) THEN NUL ELSE CharAt(source, cur)

\* peek_next: '\0' when current + 1 >= source.len(), else
\* chars().nth(current + 1).unwrap(); NoChar when the unwrap panics.
peek_next(cur) ==
    IF cur + 1 >= ByteLen(source) THEN NUL ELSE CharAt(source, cur + 1)

\* is_match without its comparison: any character that is there matches.
is_match_any(cur, expected) ==
    IF is_at_end(cur) THEN "no"
    ELSE IF CharAt(source, cur) = NoChar THEN "panic"
    ELSE "yes"

\* is_match: "yes" when the character at cur is the expected one (the caller
\* then moves the cursor by one), "no" at the end of the input or on another
\* character, "panic" when chars().nth(current).unwrap() panics.
is_match(cur, expected) ==
    IF is_at_end(cur) THEN "no"
    ELSE IF CharAt(source, cur) = NoChar THEN "panic"
    ELSE IF CharAt(source, cur) # expected THEN "no"
    ELSE "yes"

\* The messages of the panics the scanner can end in.
UnwrapMsg == "called Option::unwrap() on a None value"

SliceMsg == "byte index is not a char boundary"

CommentMsg == "Unterminated comment"

StringMsg == "Unterminated string"

(***************************************************************************)
(* The ways a step of the scanner ends.                                    *)
(***************************************************************************)
\* The step moves the cursor and goes on at nextpc.
Goto(st, cur, ln, nextpc) ==
    /\ start' = st
    /\ current' = cur
    /\ line' = ln
    /\ pc' = nextpc
    /\ UNCHANGED <<source, tokens, spans, errors, panicMsg>>

\* The step panics: the process unwinds with the scanner as it is.
Panic(st, cur, ln, msg) ==
    /\ start' = st
    /\ current' = cur
    /\ line' = ln
    /\ pc' = "panicked"
    /\ panicMsg' = msg
    /\ UNCHANGED <<source, tokens, spans, errors>>

\* add_token_literal with the token put in front of the tokens instead of
\* behind them.
add_token_literal_front(token, literal, st, cur, ln) ==
    IF SliceOk(source, st, cur)
    THEN /\ tokens' = <<NewToken(token, Slice(source, st, cur), literal, ln)>> \o tokens
         /\ spans' = <<(<<st, cur>>)>> \o spans
         /\ start' = st
         /\ current' = cur
         /\ line' = ln
         /\ pc' = "scan"
         /\ UNCHANGED <<source, errors, panicMsg>>
    ELSE Panic(st, cur, ln, SliceMsg)

\* add_token_literal with the lexeme cut from the beginning of the source
\* instead of from start.
add_token_literal_from_zero(token, literal, st, cur, ln) ==
    IF SliceOk(source, st, cur)
    THEN /\ tokens' = Append(tokens, NewToken(token, Slice(source, 0, cur), literal, ln))
         /\ spans' = Append(spans, <<st, cur>>)
         /\ start' = st
         /\ current' = cur
         /\ line' = ln
         /\ pc' = "scan"
         /\ UNCHANGED <<source, errors, panicMsg>>
    ELSE Panic(st, cur, ln, SliceMsg)

\* add_token_literal, then back to the loop of scan_tokens: the lexeme is the
\* byte slice source[start..current], the line is the line counter's value
\* now.  spans records start and current beside the token.
add_token_literal(token, literal, st, cur, ln) ==
    IF SliceOk(source, st, cur)
    THEN /\ tokens' = Append(tokens, NewToken(token, Slice(source, st, cur), literal, ln))
         /\ spans' = Append(spans, <<st, cur>>)
         /\ start' = st
         /\ current' = cur
         /\ line' = ln
         /\ pc' = "scan"
         /\ UNCHANGED <<source, errors, panicMsg>>
    ELSE Panic(st, cur, ln, SliceMsg)

\* add_token: add_token_literal with no literal.
add_token(token, st, cur, ln) == add_token_literal(token, <<>>, st, cur, ln)

\* Errors::unexpected_character(c, line): the error is reported and the scan
\* goes on.
unexpected_character(c, st, cur, ln) ==
    /\ errors' = Append(errors, [kind |-> "UnexpectedCharacter", char |-> c, line |-> ln])
    /\ start' = st
    /\ current' = cur
    /\ line' = ln
    /\ pc' = "scan"
    /\ UNCHANGED <<source, tokens, spans, panicMsg>>

\* PushEof with the EOF token put in front of the tokens instead of behind them.
PushEofFront(toks, ln) == <<NewToken("EOF", <<>>, <<>>, ln)>> \o toks

\* The end of scan_tokens: the EOF token, with the line counter's value.
PushEof(toks, ln) == Append(toks, NewToken("EOF", <<>>, <<>>, ln))

(***************************************************************************)
(* The scanner.                                                            *)
(***************************************************************************)
\* Scanner::new
Init ==
    /\ source \in Sources
    /\ tokens = <<>>
    /\ start = 0
    /\ current = 0
    /\ line = 1
    /\ pc = "scan"
    /\ panicMsg = ""
    /\ errors = <<>>
    /\ spans = <<>>

\* One iteration of the loop of scan_tokens: start = current, then scan_token
\* up to the token it adds or to the loop it enters.
ScanToken ==
    /\ pc = "scan"
    /\ ~is_at_end(current)
    /\ LET st == current
           c == CharAt(source, current)
           cur == current + 1
       IN  IF c = NoChar THEN Panic(st, cur, line, UnwrapMsg)
           ELSE IF c = NL THEN Goto(st, cur, line + 1, "scan")
           ELSE IF c = " " THEN Goto(st, cur, line, "scan")
           ELSE IF c \in SingleChars THEN add_token(SingleKind(c), st, cur, line)
           ELSE IF c \in LookaheadChars
           THEN LET m == is_match(cur, Expected(c))
                IN  IF m = "panic" THEN Panic(st, cur, line, UnwrapMsg)
                    ELSE IF m = "yes" THEN add_token(MatchedKind(c), st, cur + 1, line)
                    ELSE add_token(LoneKind(c), st, cur, line)
           ELSE IF c = "#" THEN Goto(st, cur, line, "line_comment")
           ELSE IF c = "/"
           THEN LET m == is_match(cur, "*")
                IN  IF m = "panic" THEN Panic(st, cur, line, UnwrapMsg)
                    ELSE IF m = "yes" THEN Goto(st, cur + 1, line, "block_comment")
                    ELSE add_token("Slash", st, cur, line)
           ELSE IF c = ":"
           THEN LET m == is_match(cur, ":")
                IN  IF m = "panic" THEN Panic(st, cur, line, UnwrapMsg)
                    ELSE IF m = "yes"
                    THEN IF ~is_at_end(cur + 1)
                         THEN add_token("FnTypeAssigner", st, cur + 1, line)
                         ELSE Goto(st, cur + 1, line, "scan")
                    ELSE Goto(st, cur, line, "scan")
           ELSE IF c = QUOTE THEN Goto(st, cur, line, "string")
           ELSE IF IsDigit(c) THEN Goto(st, cur, line, "number_int")
           ELSE IF IsAlphanumeric(c) THEN Goto(st, cur, line, "identifier")
           ELSE unexpected_character(c, st, cur, line)

\* LineComment with a loop that stops only at the end of the input after it
\* has advanced over the newline: the comment swallows the newline.
LineCommentOverNewline ==
    /\ pc = "line_comment"
    /\ LET p == peek(current)
       IN  IF p = NoChar THEN Panic(start, current, line, UnwrapMsg)
           ELSE IF ~is_at_end(current)
           THEN Goto(start, current + 1, line, IF p = NL THEN "scan" ELSE "line_comment")
           ELSE Goto(start, current, line, "scan")

\* The loop of the '#' arm: advance up to a newline or the end of the input.
LineComment ==
    /\ pc = "line_comment"
    /\ LET p == peek(current)
       IN  IF p = NoChar THEN Panic(start, current, line, UnwrapMsg)
           ELSE IF p # NL /\ ~is_at_end(current)
           THEN Goto(start, current + 1, line, "line_comment")
           ELSE Goto(start, current, line, "scan")

\* The '/' arm after "/*": one turn of the while loop, or, when its condition
\* fails, the check for the end of the input and the first of the two
\* advances.
BlockComment ==
    /\ pc = "block_comment"
    /\ LET p == peek(current)
           pn == peek_next(current)
       IN  IF p = NoChar THEN Panic(start, current, line, UnwrapMsg)
           ELSE IF p # "*" /\ pn = NoChar THEN Panic(start, current, line, UnwrapMsg)
           ELSE IF p # "*" /\ pn # "/" /\ ~is_at_end(current)
           THEN Goto(start, current + 1, IF p = NL THEN line + 1 ELSE line, "block_comment")
           ELSE IF is_at_end(current) THEN Panic(start, current, line, CommentMsg)
           ELSE Goto(start, current + 1, line, "block_close")

\* The second advance after the loop of a block comment.
BlockCommentClose ==
    /\ pc = "block_close"
    /\ IF CharAt(source, current) = NoChar
       THEN Panic(start, current + 1, line, UnwrapMsg)
       ELSE Goto(start, current + 1, line, "scan")

\* make_string: one turn of its loop, or the closing quote and the token.
MakeString ==
    /\ pc = "string"
    /\ LET p == peek(current)
       IN  IF p = NoChar THEN Panic(start, current, line, UnwrapMsg)
           ELSE IF p # QUOTE /\ ~is_at_end(current)
           THEN Goto(start, current + 1, IF p = NL THEN line + 1 ELSE line, "string")
           ELSE IF is_at_end(current) THEN Panic(start, current, line, StringMsg)
           ELSE IF ~SliceOk(source, start + 1, current)
           THEN Panic(start, current + 1, line, SliceMsg)
           ELSE add_token_literal("String", Slice(source, start + 1, current),
                                  start, current + 1, line)

\* make_number: the digits before the point, then the point when a digit
\* follows it.
MakeNumberInt ==
    /\ pc = "number_int"
    /\ LET p == peek(current)
           pn == peek_next(current)
       IN  IF p = NoChar THEN Panic(start, current, line, UnwrapMsg)
           ELSE IF IsDigit(p) THEN Goto(start, current + 1, line, "number_int")
           ELSE IF p = "." /\ pn = NoChar THEN Panic(start, current, line, UnwrapMsg)
           ELSE IF p = "." /\ IsDigit(pn) THEN Goto(start, current + 1, line, "number_frac")
           ELSE Goto(start, current, line, "number_frac")

\* make_number: the digits after the point, then the token.
MakeNumberFrac ==
    /\ pc = "number_frac"
    /\ LET p == peek(current)
       IN  IF p = NoChar THEN Panic(start, current, line, UnwrapMsg)
           ELSE IF IsDigit(p) THEN Goto(start, current + 1, line, "number_frac")
           ELSE IF ~SliceOk(source, start, current)
           THEN Panic(start, current, line, SliceMsg)
           ELSE add_token_literal("Number", Slice(source, start, current),
                                  start, current, line)

\* make_identifier: one turn of its loop, or the keyword lookup and the token.
MakeIdentifier ==
    /\ pc = "identifier"
    /\ LET p == peek(current)
       IN  IF p = NoChar THEN Panic(start, current, line, UnwrapMsg)
           ELSE IF IsAlphanumeric(p) THEN Goto(start, current + 1, line, "identifier")
           ELSE IF ~SliceOk(source, start, current)
           THEN Panic(start, current, line, SliceMsg)
           ELSE LET value == Slice(source, start, current)
                IN  IF get_keyword(value) # NoKeyword
                    THEN add_token(get_keyword(value), start, current, line)
                    ELSE add_token_literal("Identifier", value, start, current, line)

\* scan_tokens after its loop: the EOF token.
Finish ==
    /\ pc = "scan"
    /\ is_at_end(current)
    /\ tokens' = PushEof(tokens, line)
    /\ spans' = Append(spans, <<current, current>>)
    /\ pc' = "done"
    /\ UNCHANGED <<source, start, current, line, panicMsg, errors>>

Next ==
    \/ ScanToken
    \/ LineComment
    \/ BlockComment
    \/ BlockCommentClose
    \/ MakeString
    \/ MakeNumberInt
    \/ MakeNumberFrac
    \/ MakeIdentifier
    \/ Finish

Spec == Init /\ [][Next]_vars

(***************************************************************************)
(* What the claims speak of.                                               *)
(***************************************************************************)
\* The number of newline characters of s.
Newlines(s) == Cardinality({i \in 1..Len(s) : s[i] = NL})

\* The number of characters the cursor has consumed.
Consumed == IF current <= Len(source) THEN current ELSE Len(source)

\* The 1-based line of the character with 0-based index k.
LineOf(k) == 1 + Newlines(SubSeq(source, 1, k))

\* The 0-based indices j >= k at which the two characters "*/" stand.
ClosesFrom(k) ==
    {j \in k..(Len(source) - 2) : CharAt(source, j) = "*" /\ CharAt(source, j + 1) = "/"}

\* The first of them.
FirstCloseFrom(k) == CHOOSE j \in ClosesFrom(k) : \A i \in ClosesFrom(k) : j <= i

\* The step reports one more error, of the given kind.
ErrorAdded(kind) ==
    /\ Len(errors') = Len(errors) + 1
    /\ errors'[Len(errors')].kind = kind
    /\ errors'[Len(errors')].line \in 1..line'

\* The two-character operators and their token kinds.
CompoundKind(a, b) ==
    CASE a = "!" /\ b = "=" -> "BangEqual"
      [] a = "=" /\ b = "=" -> "EqualEqual"
      [] a = "<" /\ b = "=" -> "LessEqual"
      [] a = ">" /\ b = "=" -> "GreaterEqual"
      [] a = "-" /\ b = ">" -> "FnTypeImplication"
      [] a = ":" /\ b = ":" -> "FnTypeAssigner"
      [] OTHER -> "None"

\* The keyword and type-keyword kinds that TokenType declares, by their text.
ReservedKind(text) ==
    CASE text = <<"a", "n", "d">> -> "And"
      [] text = <<"e", "l", "s", "e">> -> "Else"
      [] text = <<"f", "a", "l", "s", "e">> -> "False"
      [] text = <<"t", "r", "u", "e">> -> "True"
      [] text = <<"f", "n">> -> "Fn"
      [] text = <<"i", "f">> -> "If"
      [] text = <<"n", "i", "l">> -> "Nil"
      [] text = <<"o", "r">> -> "Or"
      [] text = <<"p", "r", "i", "n", "t">> -> "Print"
      [] text = <<"r", "e", "t", "u", "r", "n">> -> "Return"
      [] text = <<"v", "a", "r">> -> "Var"
      [] text = <<"m", "a", "t", "c", "h">> -> "Match"
      [] text = <<"d", "o">> -> "Do"
      [] text = <<"e", "n", "d">> -> "End"
      [] text = <<"n", "u", "m", "b", "e", "r">> -> "NumberType"
      [] text = <<"f", "l", "o", "a", "t">> -> "FloatType"
      [] text = <<"b", "o", "o", "l">> -> "BoolType"
      [] text = <<"s", "t", "r", "i", "n", "g">> -> "StringType"
      [] text = <<"f", "u", "n", "c", "t", "i", "o", "n">> -> "FunctionType"
      [] OTHER -> "None"

\* Token i covers a maximal alphanumeric run that starts with a letter.
IsWordToken(i) ==
    /\ tokens[i].lexeme # <<>>
    /\ \A j \in 1..Len(tokens[i].lexeme) : IsAlphanumeric(tokens[i].lexeme[j])
    /\ ~IsDigit(tokens[i].lexeme[1])
    /\ ~IsAlphanumeric(CharAt(source, spans[i][1] - 1))

(***************************************************************************)
(* The claims.                                                             *)
(***************************************************************************)
\* C1: the token sequence of a completed scan ends with an EOF token and holds
\* no EOF token before it; no EOF token is there before the scan completes.
C1_OneEofLast ==
    /\ pc = "done" =>
        /\ Len(tokens) >= 1
        /\ tokens[Len(tokens)].token = "EOF"
        /\ \A i \in 1..(Len(tokens) - 1) : tokens[i].token # "EOF"
    /\ pc # "done" => \A i \in 1..Len(tokens) : tokens[i].token # "EOF"

\* A completed scan with two tokens before the EOF token.
C1_Witness == pc = "done" /\ Len(tokens) >= 3 /\ tokens[1].token # "EOF"

\* C2: the scan is total: no source makes the scanner panic.
C2_NoPanic == pc # "panicked"

\* C3: a two-character operator (!=, ==, <=, >=, ->, ::) at the start of a
\* token, also as the last two characters of the input, is emitted as one
\* compound token of its kind.
C3_MaximalMunch ==
    [][(/\ pc = "scan"
        /\ CompoundKind(CharAt(source, current), CharAt(source, current + 1)) # "None")
       => /\ Len(tokens') = Len(tokens) + 1
          /\ tokens'[Len(tokens')].token =
                 CompoundKind(CharAt(source, current), CharAt(source, current + 1))
          /\ tokens'[Len(tokens')].lexeme = SubSeq(source, current + 1, current + 2)
          /\ current' = current + 2]_vars

\* C4: when the input ends inside a string literal, the scan reports an
\* UnterminatedString error with a line, does not panic and adds no token.
C4_UnterminatedStringReported ==
    [][(pc = "string" /\ current >= Len(source))
       => /\ pc' # "panicked"
          /\ ErrorAdded("UnterminatedString")
          /\ tokens' = tokens]_vars

\* C5: inside a block comment that no "*/" closes, the scanner goes on through
\* the comment or reports an UnterminatedBlockComment error; it never panics
\* and never takes the comment as closed.
C5_UnterminatedCommentReported ==
    [][(pc = "block_comment" /\ ClosesFrom(current) = {})
       => /\ pc' # "panicked"
          /\ pc' = "block_comment" \/ ErrorAdded("UnterminatedBlockComment")]_vars

\* C6: a block comment that a "*/" closes ends at the first "*/" after its
\* "/*": no token is added up to there and the scan resumes right after it.
C6_CommentEndsAtFirstClose ==
    [][(pc \in {"block_comment", "block_close"} /\ ClosesFrom(start + 2) # {})
       => /\ tokens' = tokens
          /\ pc' \in {"block_comment", "block_close", "scan"}
          /\ pc' = "scan" => current' = FirstCloseFrom(start + 2) + 2]_vars

\* C7: a maximal alphanumeric run that starts with a letter is emitted with
\* the keyword's kind when its text is a keyword or a type keyword, and as an
\* Identifier whose literal is its text otherwise.
C7_KeywordsNeverIdentifiers ==
    \A i \in 1..Len(tokens) :
        IsWordToken(i) =>
            IF ReservedKind(tokens[i].lexeme) # "None"
            THEN tokens[i].token = ReservedKind(tokens[i].lexeme)
            ELSE tokens[i].token = "Identifier" /\ tokens[i].literal = tokens[i].lexeme

\* C8: a '!' that no '=' follows is emitted as Bang, never as Equal.
C8_LoneBangIsBang ==
    \A i \in 1..Len(tokens) :
        tokens[i].lexeme = <<"!">> => tokens[i].token = "Bang"

\* C9: the line counter is 1 plus the number of newline characters the cursor
\* has consumed, and the EOF token of a completed scan carries 1 plus the
\* number of newline characters of the source.
C9_LineCountsNewlines ==
    /\ line = 1 + Newlines(SubSeq(source, 1, Consumed))
    /\ pc = "done" => tokens[Len(tokens)].line = 1 + Newlines(source)

\* C10: every token but EOF carries the line of its first character.
C10_TokenLineIsFirstCharLine ==
    \A i \in 1..Len(tokens) :
        tokens[i].token # "EOF" => tokens[i].line = LineOf(spans[i][1])

\* The number of digits that stand in a row from the 0-based index k on.
RECURSIVE DigitRun(_)
DigitRun(k) == IF IsDigit(CharAt(source, k)) THEN 1 + DigitRun(k + 1) ELSE 0

\* The length of the longest text of the shape digit+ ('.' digit+)? that
\* starts at the 0-based index k.
LongestNumber(k) ==
    LET n == DigitRun(k)
    IN  IF n > 0 /\ CharAt(source, k + n) = "." /\ IsDigit(CharAt(source, k + n + 1))
        THEN n + 1 + DigitRun(k + n + 1)
        ELSE n

\* C11: the lexeme of every Number token is the longest text of the shape
\* digit+ ('.' digit+)? at the token's start, and its literal is its lexeme.
C11_NumberShape ==
    \A i \in 1..Len(tokens) :
        tokens[i].token = "Number" =>
            /\ LongestNumber(spans[i][1]) >= 1
            /\ tokens[i].lexeme =
                   SubSeq(source, spans[i][1] + 1, spans[i][1] + LongestNumber(spans[i][1]))
            /\ tokens[i].literal = tokens[i].lexeme

\* C12: the lexeme of every String token begins and ends with a double quote,
\* its literal is the lexeme without its first and its last character, and
\* the literal holds no double quote.
C12_StringLiteralIsLexemeUnquoted ==
    \A i \in 1..Len(tokens) :
        tokens[i].token = "String" =>
            LET lx == tokens[i].lexeme
            IN  /\ Len(lx) >= 2
                /\ lx[1] = QUOTE
                /\ lx[Len(lx)] = QUOTE
                /\ tokens[i].literal = SubSeq(lx, 2, Len(lx) - 1)
                /\ \A j \in 1..Len(tokens[i].literal) : tokens[i].literal[j] # QUOTE

\* C13: in every state of the scanner 0 <= start <= current <= the length of
\* the source.
C13_CursorInRange == 0 <= start /\ start <= current /\ current <= ByteLen(source)

\* The step adds a token that is not the EOF token.
TokenAdded ==
    /\ Len(tokens') = Len(tokens) + 1
    /\ tokens'[Len(tokens')].token # "EOF"

C15_AppendOnlyInSourceOrder ==
    [][/\ Len(tokens') >= Len(tokens)
       /\ SubSeq(tokens', 1, Len(tokens)) = tokens
       /\ SubSeq(spans', 1, Len(spans)) = spans
       /\ \A i \in 1..(Len(tokens') - 1) :
              tokens'[i + 1].token # "EOF" => spans'[i][2] <= spans'[i + 1][1]]_vars

\* Three tokens before EOF, with text between the first and the second.
C15_Witness ==
    /\ pc = "done"
    /\ Len(tokens) >= 4
    /\ spans[1][2] < spans[2][1]

\* The characters that a rule of the scanner is about: space, newline,
\* punctuation, operators, '#', '/', ':', the double quote, digits, letters.
RuleChars ==
    {" ", NL, "{", "}", "(", ")", ",", ".", "-", "+", ";", "*", "!", "=", "<", ">",
     "#", "/", ":", QUOTE} \cup Digits \cup Letters \cup {EAcute}

\* The scanner is about to scan a character that no rule is about.
AtUnexpectedChar ==
    /\ pc = "scan"
    /\ CharAt(source, current) # NoChar
    /\ CharAt(source, current) \notin RuleChars

\* C16: a character that no rule is about is reported as an
\* UnexpectedCharacter error with the character and the line, adds no token,
\* moves the cursor by one, and the scan goes on with the next character.
C16_UnexpectedCharSkipped ==
    [][AtUnexpectedChar
       => /\ errors' = Append(errors, [kind |-> "UnexpectedCharacter",
                                       char |-> CharAt(source, current),
                                       line |-> line])
          /\ tokens' = tokens
          /\ current' = current + 1
          /\ line' = line
          /\ pc' = "scan"]_vars

\* A completed scan that reported the first character and added a token
\* after it.
C16_Witness ==
    /\ pc = "done"
    /\ Len(errors) = 1
    /\ errors[1].char = source[1]
    /\ Len(tokens) >= 2
    /\ spans[1][1] >= 1

\* The scanner is about to scan one of ! = < > - and the character after it
\* is not its partner ('>' for '-', '=' for the others), or there is none.
AtLoneOperator ==
    /\ pc = "scan"
    /\ CharAt(source, current) \in {"!", "=", "<", ">", "-"}
    /\ \/ current + 1 >= ByteLen(source)
       \/ /\ CharAt(source, current + 1) # NoChar
          /\ CharAt(source, current + 1) #
                 (IF CharAt(source, current) = "-" THEN ">" ELSE "=")

\* C17: a lookahead that fails consumes nothing: the cursor moves by one, over
\* the operator alone; the token that is added has a lexeme of one character
\* and the span [current, current + 1); the scan goes on at the next character.
C17_FailedLookaheadConsumesNothing ==
    [][AtLoneOperator
       => /\ current' = current + 1
          /\ start' = current
          /\ pc' \in {"scan", "panicked"}
          /\ pc' = "scan" =>
                /\ TokenAdded
                /\ Len(tokens'[Len(tokens')].lexeme) = 1
                /\ spans'[Len(spans')] = <<current, current + 1>>]_vars

\* A lone operator was scanned before another character, and both became
\* tokens of their own.
C17_Witness ==
    /\ Len(tokens) >= 2
    /\ tokens[1].lexeme \in {<<"!">>, <<"=">>, <<"<">>, <<">">>, <<"-">>}
    /\ spans[1] = <<0, 1>>
    /\ spans[2][1] = 1

\* The 0-based index of the first newline at or after index k, or the length
\* of the source when there is none.
NextNewlineOrEnd(k) ==
    IF \E j \in k..(Len(source) - 1) : CharAt(source, j) = NL
    THEN CHOOSE j \in k..(Len(source) - 1) :
             /\ CharAt(source, j) = NL
             /\ \A i \in k..(j - 1) : CharAt(source, i) # NL
    ELSE Len(source)

\* The scan has just left a line comment: start is still at its '#'.
AfterLineComment == pc = "scan" /\ CharAt(source, start) = "#" /\ current > start

\* C18: a line comment adds no token, reports nothing and leaves the line
\* counter alone; it ends with the cursor at the next newline, or at the end
\* of the input; that newline is then scanned on its own and counted once.
C18_LineCommentStopsBeforeNewline ==
    [][/\ pc = "line_comment" =>
           /\ tokens' = tokens
           /\ errors' = errors
           /\ line' = line
           /\ pc' = "scan" => current' = NextNewlineOrEnd(start + 1)
       /\ (AfterLineComment /\ CharAt(source, current) = NL) =>
           /\ tokens' = tokens
           /\ line' = line + 1
           /\ current' = current + 1]_vars

\* The source began with a line comment and the first token, from after the
\* comment, carries line 2.
C18_Witness ==
    /\ source # <<>>
    /\ source[1] = "#"
    /\ Len(tokens) >= 2
    /\ tokens[1].line = 2
    /\ spans[1][1] = NextNewlineOrEnd(1) + 1
    /\ spans[1][1] >= 3

\* The scanner is about to scan a ':' that no second ':' follows.
AtLoneColon ==
    /\ pc = "scan"
    /\ CharAt(source, current) = ":"
    /\ CharAt(source, current + 1) # ":"

\* C19: a ':' that no ':' follows adds no token, reports no error and moves
\* the cursor by one.
C19_LoneColonSkipped ==
    [][AtLoneColon
       => /\ tokens' = tokens
          /\ errors' = errors
          /\ line' = line
          /\ current' = current + 1]_vars

\* A completed scan that skipped a ':' at the beginning of the source and
\* added the character after it as a token, with no error.
C19_Witness ==
    /\ pc = "done"
    /\ Len(source) >= 2
    /\ source[1] = ":"
    /\ source[2] # ":"
    /\ errors = <<>>
    /\ Len(tokens) >= 2
    /\ spans[1][1] = 1

\* C20: the scan of every source ends with the EOF token appended: a state
\* in which no step of the scanner is possible is one where scan_tokens has
\* pushed EOF.
C20_ScanEndsWithEof ==
    (~ENABLED Next)
        => /\ pc = "done"
           /\ tokens # <<>>
           /\ tokens[Len(tokens)].token = "EOF"

====
